---- MODULE Spec2Model ----
(***************************************************************************)
(* A model of the console payroll program                                  *)
(* src/Sahagun-abstraction-and-encapsulation.cpp: the four validators, the *)
(* three employee variants, PayrollSystem (the registry and its prompting  *)
(* loops) and the menu loop of main.                                       *)
(*                                                                         *)
(* A text is a sequence of one-character strings.  A step of the program   *)
(* is one getline: the step consumes the line, runs the code up to the     *)
(* next getline (or to the end of the process) and records in `out` what   *)
(* that code wrote to cout.                                                *)
(***************************************************************************)
EXTENDS Integers, Sequences, FiniteSets, TLC

\* ------------------------------------------------------------------ bounds

\* The registry holds at most this many records in the model.
MaxEmployees == 2
\* The validators are explored on every text over Alphabet of at most this length.
MaxLen == 5

\* ------------------------------------------------------ program constants

\* std::numeric_limits<int>::max(), the bound stoi enforces on its result.
INT_MAX == 2147483647
\* The precision of an ostream that was never given one: 6 significant digits.
COUT_PRECISION == 6

\* ------------------------------------------------------------- characters

Digits == {"0", "1", "2", "3", "4", "5", "6", "7", "8", "9"}

Letters ==
    {"a", "b", "c", "d", "e", "f", "g", "h", "i", "j", "k", "l", "m",
     "n", "o", "p", "q", "r", "s", "t", "u", "v", "w", "x", "y", "z",
     "A", "B", "C", "D", "E", "F", "G", "H", "I", "J", "K", "L", "M",
     "N", "O", "P", "Q", "R", "S", "T", "U", "V", "W", "X", "Y", "Z"}

\* The characters std::isspace accepts in the "C" locale.  getline removes the
\* line feed, so a line holds none.
Spaces == {" ", "\t", "\r", "\f"}

DigitChars == <<"0", "1", "2", "3", "4", "5", "6", "7", "8", "9">>

DigitVal(c) == CHOOSE d \in 0..9 : DigitChars[d + 1] = c

\* The least element of a non-empty set of integers.
Least(S) == CHOOSE x \in S : \A y \in S : x <= y

\* The number of characters of s, from position i on, that precede the first
\* one outside the set cs.
Run(s, i, cs) ==
    LET stops == {j \in i..Len(s) : s[j] \notin cs}
    IN  IF i > Len(s) THEN 0
        ELSE IF stops = {} THEN Len(s) - i + 1
        ELSE Least(stops) - i

\* The number of digits of s that start at position i.
DigitRun(s, i) == Run(s, i, Digits)

\* The number of whitespace characters of s that start at position i.
SpaceRun(s, i) == Run(s, i, Spaces)

\* s without its leading zeros (the empty sequence for a run of zeros).
StripZeros(s) == SubSeq(s, Run(s, 1, {"0"}) + 1, Len(s))

\* The value of a digit sequence, or -1 when it exceeds limit (limit <= INT_MAX).
\* The test precedes the multiplication, so no intermediate value exceeds limit.
RECURSIVE Accumulate(_, _, _)
Accumulate(s, acc, limit) ==
    IF s = <<>> THEN acc
    ELSE LET d == DigitVal(Head(s))
         IN  IF acc > (limit - d) \div 10 THEN -1
             ELSE Accumulate(Tail(s), acc * 10 + d, limit)

\* ------------------------------------------------------------- validators

\* std::stoi(input, &pos): strtol in base 10 skips leading whitespace, takes an
\* optional sign and the longest run of digits; no digit throws
\* invalid_argument, a value outside int throws out_of_range.
stoi(input) ==
    LET ws     == SpaceRun(input, 1)
        signed == ws < Len(input) /\ input[ws + 1] \in {"+", "-"}
        neg    == signed /\ input[ws + 1] = "-"
        first  == ws + (IF signed THEN 1 ELSE 0) + 1
        n      == DigitRun(input, first)
        mag    == Accumulate(SubSeq(input, first, first + n - 1), 0, INT_MAX)
        isMin  == neg /\ StripZeros(SubSeq(input, first, first + n - 1))
                         = <<"2", "1", "4", "7", "4", "8", "3", "6", "4", "8">>
    IN  IF n = 0 THEN [thrown |-> "invalid_argument", value |-> 0, pos |-> 0]
        ELSE IF isMin
             THEN [thrown |-> "none", value |-> (-INT_MAX) - 1, pos |-> first + n - 1]
        ELSE IF mag = -1 THEN [thrown |-> "out_of_range", value |-> 0, pos |-> 0]
        ELSE [thrown |-> "none", value |-> IF neg THEN -mag ELSE mag,
              pos |-> first + n - 1]

\* isValidInteger: true iff stoi consumed the whole input; every exception is
\* caught and reported as false.  `assigned` tells whether output was written.
isValidInteger(input) ==
    LET r == stoi(input)
    IN  IF r.thrown # "none"
        THEN [ok |-> FALSE, assigned |-> FALSE, output |-> 0]
        ELSE [ok |-> r.pos = Len(input), assigned |-> TRUE, output |-> r.value]

\* input.find(' ') != string::npos
HasSpace(input) == \E i \in 1..Len(input) : input[i] = " "

\* isValidMenuNumber
isValidMenuNumber(input, min, max) ==
    IF HasSpace(input) THEN [ok |-> FALSE, assigned |-> FALSE, output |-> 0]
    ELSE LET r == isValidInteger(input)
         IN  IF r.ok THEN [r EXCEPT !.ok = r.output >= min /\ r.output <= max]
             ELSE r

\* regex_match(input, "^\d+(\.\d{1,2})?$")
MatchesDecimalRegex(input) ==
    LET n    == DigitRun(input, 1)
        rest == Len(input) - n
    IN  /\ n >= 1
        /\ \/ rest = 0
           \/ /\ rest \in {2, 3}
              /\ input[n + 1] = "."
              /\ DigitRun(input, n + 2) = rest - 1

\* The decimal digits of 2^1024 - 2^970, the least number that strtod rounds to
\* infinity (DBL_MAX plus half a unit in its last place).
DBL_OVERFLOW_DIGITS ==
    <<1, 7, 9, 7, 6, 9, 3, 1, 3, 4, 8, 6, 2, 3, 1, 5, 8, 0, 7, 9, 3, 7, 2, 8, 9, 7, 1, 4, 0, 5,
    3, 0, 3, 4, 1, 5, 0, 7, 9, 9, 3, 4, 1, 3, 2, 7, 1, 0, 0, 3, 7, 8, 2, 6, 9, 3, 6, 1, 7, 3,
    7, 7, 8, 9, 8, 0, 4, 4, 4, 9, 6, 8, 2, 9, 2, 7, 6, 4, 7, 5, 0, 9, 4, 6, 6, 4, 9, 0, 1, 7,
    9, 7, 7, 5, 8, 7, 2, 0, 7, 0, 9, 6, 3, 3, 0, 2, 8, 6, 4, 1, 6, 6, 9, 2, 8, 8, 7, 9, 1, 0,
    9, 4, 6, 5, 5, 5, 5, 4, 7, 8, 5, 1, 9, 4, 0, 4, 0, 2, 6, 3, 0, 6, 5, 7, 4, 8, 8, 6, 7, 1,
    5, 0, 5, 8, 2, 0, 6, 8, 1, 9, 0, 8, 9, 0, 2, 0, 0, 0, 7, 0, 8, 3, 8, 3, 6, 7, 6, 2, 7, 3,
    8, 5, 4, 8, 4, 5, 8, 1, 7, 7, 1, 1, 5, 3, 1, 7, 6, 4, 4, 7, 5, 7, 3, 0, 2, 7, 0, 0, 6, 9,
    8, 5, 5, 5, 7, 1, 3, 6, 6, 9, 5, 9, 6, 2, 2, 8, 4, 2, 9, 1, 4, 8, 1, 9, 8, 6, 0, 8, 3, 4,
    9, 3, 6, 4, 7, 5, 2, 9, 2, 7, 1, 9, 0, 7, 4, 1, 6, 8, 4, 4, 4, 3, 6, 5, 5, 1, 0, 7, 0, 4,
    3, 4, 2, 7, 1, 1, 5, 5, 9, 6, 9, 9, 5, 0, 8, 0, 9, 3, 0, 4, 2, 8, 8, 0, 1, 7, 7, 9, 0, 4,
    1, 7, 4, 4, 9, 7, 7, 9, 2>>

\* Whether the digit sequence a (no leading zero) denotes a number >= b's.
DigitsGeq(a, b) ==
    LET differ == {j \in 1..Len(a) : Len(a) = Len(b) /\ DigitVal(a[j]) # b[j]}
    IN  IF Len(a) # Len(b) THEN Len(a) > Len(b)
        ELSE IF differ = {} THEN TRUE
        ELSE DigitVal(a[Least(differ)]) > b[Least(differ)]

\* std::stod on a text the regex accepted.  The value is kept in hundredths
\* (the text has at most two fractional digits).  strtod reports ERANGE, and
\* stod throws out_of_range, when the number rounds to infinity: when its
\* integer part reaches 2^1024 - 2^970.  The hundredths are an integer of the
\* model, so the value is right for a number below INT_MAX / 100; the lines
\* and texts the specifications draw are below it or out of double's range.
stod(input) ==
    LET n     == DigitRun(input, 1)
        whole == SubSeq(input, 1, n)
        frac  == SubSeq(input, n + 2, Len(input))
        cents == IF Len(frac) = 0 THEN 0
                 ELSE IF Len(frac) = 1 THEN 10 * DigitVal(frac[1])
                 ELSE 10 * DigitVal(frac[1]) + DigitVal(frac[2])
    IN  IF DigitsGeq(StripZeros(whole), DBL_OVERFLOW_DIGITS)
        THEN [thrown |-> "out_of_range", value |-> 0]
        ELSE [thrown |-> "none",
              value  |-> 100 * Accumulate(whole, 0, INT_MAX \div 100) + cents]

\* isValidDecimal: nothing here catches what stod throws.
isValidDecimal(input) ==
    IF MatchesDecimalRegex(input)
    THEN LET r == stod(input)
         IN  [ok |-> r.thrown = "none", thrown |-> r.thrown, output |-> r.value]
    ELSE [ok |-> FALSE, thrown |-> "none", output |-> 0]

\* regex_match(id, "^[a-zA-Z0-9]+$")
MatchesIdRegex(id) ==
    /\ Len(id) >= 1
    /\ \A i \in 1..Len(id) : id[i] \in Letters \cup Digits

\* A faulty isValidID that tests for a space and never applies the regex.
isValidID_noRegex(id) == id # <<>> /\ ~HasSpace(id)

\* isValidID
isValidID(id) ==
    IF HasSpace(id) THEN FALSE ELSE MatchesIdRegex(id)

\* --------------------------------------------------------------- printing

RECURSIVE Pow10(_)
Pow10(e) == IF e = 0 THEN 1 ELSE 10 * Pow10(e - 1)

\* The decimal digits of n >= 0, as characters ("0" for 0).
RECURSIVE NatText(_)
NatText(n) ==
    IF n < 10 THEN <<DigitChars[n + 1]>>
    ELSE Append(NatText(n \div 10), DigitChars[(n % 10) + 1])

\* s without its trailing zeros.
RECURSIVE StripTrailingZeros(_)
StripTrailingZeros(s) ==
    IF s # <<>> /\ s[Len(s)] = "0"
    THEN StripTrailingZeros(SubSeq(s, 1, Len(s) - 1))
    ELSE s

Zeros(n) == [i \in 1..n |-> "0"]

\* operator<<(ostream&, double) of a default stream: printf's %g with
\* COUT_PRECISION significant digits, for the non-negative number n / 10^k.
\* The mantissa is rounded to the precision (a tie goes to the even digit; the
\* program rounds the binary value, which differs only on a decimal tie), the
\* trailing zeros of the fraction are dropped, and the exponent form is used
\* when the decimal exponent x is below -4 or reaches the precision.
FormatDouble(n, k) ==
    IF n = 0 THEN <<"0">>
    ELSE
    LET len   == Len(NatText(n))
        drop  == IF len > COUT_PRECISION THEN len - COUT_PRECISION ELSE 0
        q     == n \div Pow10(drop)
        r     == n % Pow10(drop)
        up    == drop > 0 /\ (2 * r > Pow10(drop) \/ (2 * r = Pow10(drop) /\ q % 2 = 1))
        carry == up /\ q + 1 = Pow10(COUT_PRECISION)
        m     == IF carry THEN NatText(Pow10(COUT_PRECISION - 1))
                 ELSE NatText(IF up THEN q + 1 ELSE q)
        x     == (len - 1 - k) + (IF carry THEN 1 ELSE 0)
        ax    == IF x < 0 THEN -x ELSE x
        frac  == StripTrailingZeros(SubSeq(m, 2, Len(m)))
    IN  IF x < -4 \/ x >= COUT_PRECISION
        THEN <<m[1]>> \o (IF frac = <<>> THEN <<>> ELSE <<".">> \o frac)
             \o <<"e", IF x < 0 THEN "-" ELSE "+">>
             \o (IF ax < 10 THEN <<"0">> ELSE <<>>) \o NatText(ax)
        ELSE IF x >= 0
        THEN LET whole == IF Len(m) >= x + 1 THEN SubSeq(m, 1, x + 1)
                          ELSE m \o Zeros(x + 1 - Len(m))
                 rest  == StripTrailingZeros(SubSeq(m, x + 2, Len(m)))
             IN  whole \o (IF rest = <<>> THEN <<>> ELSE <<".">> \o rest)
        ELSE <<"0", ".">> \o Zeros(-x - 1) \o StripTrailingZeros(m)

\* operator<<(ostream&, int), for a value >= 0 or below.
FormatInt(n) == IF n < 0 THEN <<"-">> \o NatText(-n) ELSE NatText(n)

\* One line written to cout: the literal text of the statement and the (at most
\* two) values it streams between the literals.
Line(lit) == [lit |-> lit, a |-> <<>>, b |-> <<>>]
Line1(lit, a) == [lit |-> lit, a |-> a, b |-> <<>>]
Line2(lit, a, b) == [lit |-> lit, a |-> a, b |-> b]

\* ---------------------------------------------------------------- employees

FullTimeEmployee(id, name, monthlySalary) ==
    [type |-> "FullTime", id |-> id, name |-> name, salary |-> monthlySalary]

PartTimeEmployee(id, name, wage, hours) ==
    [type |-> "PartTime", id |-> id, name |-> name,
     hourlyWage |-> wage, hoursWorked |-> hours]

ContractualEmployee(id, name, payment, projects) ==
    [type |-> "Contractual", id |-> id, name |-> name,
     paymentPerProject |-> payment, projectsCompleted |-> projects]

\* calculateSalary, by variant: the pay as a number n / 10^k.  A decimal field is
\* held in hundredths, so the product of two has four fractional digits.
calculateSalary(emp) ==
    CASE emp.type = "FullTime"    -> [n |-> emp.salary, k |-> 2]
      [] emp.type = "PartTime"    -> [n |-> emp.hourlyWage * emp.hoursWorked, k |-> 4]
      [] emp.type = "Contractual" ->
             [n |-> emp.paymentPerProject * emp.projectsCompleted, k |-> 2]

EmployeeLine(emp) == Line2("Employee: %name (ID: %id)", emp.name, emp.id)

PayText(emp) == FormatDouble(calculateSalary(emp).n, calculateSalary(emp).k)

\* Employee::displayPayrollReport, by variant.
displayEmployee(emp) ==
    CASE emp.type = "FullTime" ->
             <<EmployeeLine(emp),
               Line1("Fixed Monthly Salary: $", FormatDouble(emp.salary, 2))>>
      [] emp.type = "PartTime" ->
             <<EmployeeLine(emp),
               Line1("Hourly Wage: $", FormatDouble(emp.hourlyWage, 2)),
               Line1("Hours Worked: ", FormatDouble(emp.hoursWorked, 2)),
               Line1("Total Salary: $", PayText(emp))>>
      [] emp.type = "Contractual" ->
             <<EmployeeLine(emp),
               Line1("Contract Payment Per Project: $",
                     FormatDouble(emp.paymentPerProject, 2)),
               Line1("Projects Completed: ", FormatInt(emp.projectsCompleted)),
               Line1("Total Salary: $", PayText(emp))>>

NoEmployeesMsg == Line("No employees to display.")
ReportHeader == Line("------ Employee Payroll Report ------")

RECURSIVE displayAll(_)
displayAll(emps) ==
    IF emps = <<>> THEN <<>>
    ELSE displayEmployee(Head(emps)) \o <<Line("")>> \o displayAll(Tail(emps))

\* PayrollSystem::displayPayrollReport
displayPayrollReport(emps) ==
    IF emps = <<>> THEN <<NoEmployeesMsg>>
    ELSE <<ReportHeader>> \o displayAll(emps)

\* ------------------------------------------------------------------- state

VARIABLES
    pc,         \* where the process waits: "menu" (line 320), "id" (169),
                \* "name" (191), "decimal" (210), "numeric" (233); or how it
                \* ended: "exited" (return 0), "terminated" (std::terminate)
    employees,  \* PayrollSystem::employees, in insertion order
    choice,     \* main's choice: the last menu line read
    option,     \* main's option while an add operation runs, else 0
    id,         \* the add operation's local id (<<>> before it is read)
    name,       \* the add operation's local name
    vals,       \* the add operation's decimal locals read so far
    line,       \* the line the last getline returned
    prompted,   \* the prompt that line answered ("none" before the first)
    out,        \* what the last step wrote to cout
    arg,        \* the validators alone: the text given
    ret         \* the validators alone: the function applied and its result

vars == <<pc, employees, choice, option, id, name, vals, line, prompted, out, arg, ret>>

\* ------------------------------------------------------------------ inputs

\* The 310-digit line 999...9 (10^310 - 1).
LongDigits == [i \in 1..310 |-> "9"]

\* The lines the operator types at each prompt: every way each prompt's code
\* can go.
MenuLines ==
    {<<>>, <<"0">>, <<"1">>, <<"2">>, <<"3">>, <<"4">>, <<"5">>, <<"6">>,
     <<"+", "5">>, <<"0", "5">>, <<"\t", "4">>, <<"1", " ">>, <<"x">>}

IdLines ==
    {<<>>, <<"E", " ", "1">>, <<"E", "-", "1">>, <<"E", "\t", "1">>,
     <<"E", "1">>, <<"E", "2">>, <<"7">>}

NameLines == {<<>>, <<"A", "n", "n">>}

DecimalLines ==
    {<<>>, <<"0">>, <<"0", ".", "0">>, <<"0", ".", "0", "0">>, <<"2">>,
     <<"4", "0", "0", ".", "2", "5">>, <<"-", "1", ".", "5">>,
     <<"1", ".", "5", "5", "5">>, LongDigits}

NumericLines ==
    {<<>>, <<"0">>, <<"3">>, <<"-", "1">>, <<"0", ".", "0">>, <<"x">>,
     <<"2", "1", "4", "7", "4", "8", "3", "6", "4", "8">>}

\* ------------------------------------------------------------------ output

MenuText ==
    <<Line(""), Line("============================="),
      Line("    PAYROLL SYSTEM MENU    "), Line("============================="),
      Line("[1] Full-time Employee"), Line("[2] Part-time Employee"),
      Line("[3] Contractual Employee"), Line("[4] Display Payroll Report"),
      Line("[5] Exit"), Line("============================="),
      Line("Enter your choice: ")>>

IdPrompt == Line("Enter Employee ID: ")
NamePrompt == Line("Enter Employee Name: ")

\* The prompt of the decimal field read after n decimal fields, by option.
DecimalPrompt(opt, n) ==
    CASE opt = 1 -> Line("Enter Monthly Salary: $")
      [] opt = 2 /\ n = 0 -> Line("Enter Hourly Wage: $")
      [] opt = 2 /\ n = 1 -> Line("Enter Number of Hours Worked: ")
      [] opt = 3 -> Line("Enter Payment Per Project: $")

NumericPrompt == Line("Enter Number of Projects Completed: ")

InvalidChoiceMsg == Line("Invalid choice. Please enter a number between 1 and 5.")
IdEmptyMsg == Line("ID cannot be empty. Please try again.")
IdFormatMsg ==
    Line("Invalid ID format! ID must contain only alphanumeric characters: ID must contain only letters and numbers with no spaces or special characters.")
IdDuplicateMsg == Line("Duplicate ID! Please enter a unique ID.")
NotPositiveMsg == Line("Value must be greater than zero. Please try again.")

\* ------------------------------------------------------------------- steps

\* The loop condition of main (line 344) and what follows it: the menu again,
\* or return 0, on which ~PayrollSystem deletes every record.
LoopTail(ch, emps) ==
    IF ch # <<"5">>
    THEN [pc |-> "menu", out |-> MenuText, employees |-> emps]
    ELSE [pc |-> "exited", out |-> <<>>, employees |-> <<>>]

\* A faulty insertion that puts the record first.
push_front(v, e) == <<e>> \o v

\* vector::push_back
push_back(v, e) == Append(v, e)

\* The end of an add operation (lines 262-263, 273-274, 284-285): the record is
\* appended, the confirmation written, and main's loop goes on.
FinishAdd(emp, confirmation) ==
    LET t == LoopTail(choice, push_back(employees, emp))
    IN  /\ pc' = t.pc
        /\ employees' = t.employees
        /\ out' = <<Line(confirmation)>> \o t.out
        /\ option' = 0
        /\ id' = <<>>
        /\ name' = <<>>
        /\ vals' = <<>>

\* One iteration of main's loop from its getline (lines 320-344).  An add
\* operation runs up to its first getline; the report and the exit run whole.
MainLoop ==
    /\ pc = "menu"
    /\ \E l \in MenuLines :
          LET r == isValidMenuNumber(l, 1, 5)
          IN  /\ line' = l
              /\ prompted' = "menu"
              /\ choice' = l
              /\ UNCHANGED <<id, name, vals, arg, ret>>
              /\ IF r.ok /\ r.output \in {1, 2, 3}
                 THEN /\ Len(employees) < MaxEmployees
                      /\ pc' = "id"
                      /\ option' = r.output
                      /\ out' = <<IdPrompt>>
                      /\ UNCHANGED employees
                 ELSE LET t == LoopTail(l, employees)
                      IN  /\ pc' = t.pc
                          /\ employees' = t.employees
                          /\ option' = 0
                          /\ out' = (IF ~r.ok
                                     THEN <<InvalidChoiceMsg>>
                                     ELSE IF r.output = 4
                                     THEN displayPayrollReport(employees)
                                     ELSE <<Line("Exiting program. Goodbye!")>>)
                                    \o t.out

\* A faulty isIdUnique that skips the first record.
isIdUnique_skipFirst(emps, i) == \A n \in 2..Len(emps) : emps[n].id # i

\* PayrollSystem::isIdUnique
isIdUnique(emps, i) == \A n \in 1..Len(emps) : emps[n].id # i

\* One iteration of getEmployeeId's loop (lines 167-180).
getEmployeeId ==
    /\ pc = "id"
    /\ \E l \in IdLines :
          /\ line' = l
          /\ prompted' = "id"
          /\ UNCHANGED <<employees, choice, option, name, vals, arg, ret>>
          /\ IF l = <<>>
             THEN /\ out' = <<IdEmptyMsg, IdPrompt>>
                  /\ UNCHANGED <<pc, id>>
             ELSE IF ~isValidID(l)
             THEN /\ out' = <<IdFormatMsg, IdPrompt>>
                  /\ UNCHANGED <<pc, id>>
             ELSE IF ~isIdUnique(employees, l)
             THEN /\ out' = <<IdDuplicateMsg, IdPrompt>>
                  /\ UNCHANGED <<pc, id>>
             ELSE /\ id' = l
                  /\ pc' = "name"
                  /\ out' = <<NamePrompt>>

\* One iteration of getEmployeeName's loop (lines 189-198).
getEmployeeName ==
    /\ pc = "name"
    /\ \E l \in NameLines :
          /\ line' = l
          /\ prompted' = "name"
          /\ UNCHANGED <<employees, choice, option, id, vals, arg, ret>>
          /\ IF l # <<>>
             THEN /\ name' = l
                  /\ pc' = "decimal"
                  /\ out' = <<DecimalPrompt(option, 0)>>
             ELSE /\ out' = <<Line("Name cannot be empty. Please try again."), NamePrompt>>
                  /\ UNCHANGED <<pc, name>>

\* A faulty test of line 213 that lets zero through.
IsPositive_orZero(value) == value >= 0

\* The test of line 213.
IsPositive(value) == value > 0

\* One iteration of getValidDecimalInput's loop (lines 208-221), with what the
\* add operation does when the call returns: the next prompt, or the record.
\* An exception of stod leaves every frame up to main, none of which catches
\* it: std::terminate ends the process.
getValidDecimalInput ==
    /\ pc = "decimal"
    /\ \E l \in DecimalLines :
          LET r == isValidDecimal(l)
          IN  /\ line' = l
              /\ prompted' = "decimal"
              /\ UNCHANGED <<choice, arg, ret>>
              /\ IF r.thrown # "none"
                 THEN /\ pc' = "terminated"
                      /\ out' = <<>>
                      /\ UNCHANGED <<employees, option, id, name, vals>>
                 ELSE IF ~r.ok
                 THEN /\ out' = <<Line("Invalid format. Please enter a valid number."),
                                  DecimalPrompt(option, Len(vals))>>
                      /\ UNCHANGED <<pc, employees, option, id, name, vals>>
                 ELSE IF ~IsPositive(r.output)
                 THEN /\ out' = <<NotPositiveMsg,
                                  DecimalPrompt(option, Len(vals))>>
                      /\ UNCHANGED <<pc, employees, option, id, name, vals>>
                 ELSE IF option = 1
                 THEN FinishAdd(FullTimeEmployee(id, name, r.output),
                                "Full-time employee added successfully!")
                 ELSE IF option = 2 /\ Len(vals) = 1
                 THEN FinishAdd(PartTimeEmployee(id, name, vals[1], r.output),
                                "Part-time employee added successfully!")
                 ELSE /\ vals' = Append(vals, r.output)
                      /\ pc' = IF option = 2 THEN "decimal" ELSE "numeric"
                      /\ out' = <<IF option = 2 THEN DecimalPrompt(2, 1) ELSE NumericPrompt>>
                      /\ UNCHANGED <<employees, option, id, name>>

\* The test of line 236.
IsNonNegative(value) == value >= 0

\* One iteration of getValidNumericInput's loop (lines 231-244), with the end
\* of addContractualEmployee when the call returns.
getValidNumericInput ==
    /\ pc = "numeric"
    /\ \E l \in NumericLines :
          LET r == isValidInteger(l)
          IN  /\ line' = l
              /\ prompted' = "numeric"
              /\ UNCHANGED <<choice, arg, ret>>
              /\ IF ~r.ok
                 THEN /\ out' = <<Line("Invalid input. Please enter a valid number."),
                                  NumericPrompt>>
                      /\ UNCHANGED <<pc, employees, option, id, name, vals>>
                 ELSE IF ~IsNonNegative(r.output)
                 THEN /\ out' = <<Line("Value cannot be negative. Please try again."),
                                  NumericPrompt>>
                      /\ UNCHANGED <<pc, employees, option, id, name, vals>>
                 ELSE FinishAdd(ContractualEmployee(id, name, vals[1], r.output),
                                "Contractual employee added successfully!")

\* The state when main reaches its first getline: an empty registry, the menu
\* on the screen.
Init ==
    /\ pc = "menu"
    /\ employees = <<>>
    /\ choice = <<>>
    /\ option = 0
    /\ id = <<>>
    /\ name = <<>>
    /\ vals = <<>>
    /\ line = <<>>
    /\ prompted = "none"
    /\ out = MenuText
    /\ arg = <<>>
    /\ ret = [fn |-> "none"]

Next ==
    \/ MainLoop
    \/ getEmployeeId
    \/ getEmployeeName
    \/ getValidDecimalInput
    \/ getValidNumericInput

Spec == Init /\ [][Next]_vars

\* ------------------------------------------------------ the validators alone

\* The characters of the texts the validators are explored on: two digits, the
\* signs, a space and a tab, the decimal point, and a letter (the exponent's).
Alphabet == {"0", "5", "+", "-", " ", "\t", ".", "e"}

\* The texts of n characters.
TextsOfLen(n) == [1..n -> Alphabet]

Texts == UNION {TextsOfLen(n) : n \in 0..MaxLen}

\* Integer literals around the ends of int.
IntegerEdgeTexts ==
    {<<"2", "1", "4", "7", "4", "8", "3", "6", "4", "7">>,
     <<"2", "1", "4", "7", "4", "8", "3", "6", "4", "8">>,
     <<"-", "2", "1", "4", "7", "4", "8", "3", "6", "4", "8">>,
     <<"-", "2", "1", "4", "7", "4", "8", "3", "6", "4", "9">>,
     <<"0", "0", "0", "0", "0", "0", "0", "0", "0", "0", "5">>}

InitValidators ==
    /\ pc = "menu"
    /\ employees = <<>>
    /\ choice = <<>>
    /\ option = 0
    /\ id = <<>>
    /\ name = <<>>
    /\ vals = <<>>
    /\ line = <<>>
    /\ prompted = "none"
    /\ out = MenuText
    /\ arg \in Texts \cup IntegerEdgeTexts \cup {LongDigits}
    /\ ret = [fn |-> "none"]

program == <<pc, employees, choice, option, id, name, vals, line, prompted, out>>

CallIsValidInteger ==
    /\ ret' = [fn |-> "isValidInteger", ok |-> isValidInteger(arg).ok,
               output |-> isValidInteger(arg).output]
    /\ UNCHANGED <<arg, program>>

CallIsValidMenuNumber ==
    /\ ret' = [fn |-> "isValidMenuNumber", ok |-> isValidMenuNumber(arg, 1, 5).ok,
               output |-> isValidMenuNumber(arg, 1, 5).output]
    /\ UNCHANGED <<arg, program>>

\* A number of ten digits is more hundredths than the model's integers hold:
\* isValidDecimal is applied to the short texts and to the long one.
CallIsValidDecimal ==
    /\ arg \notin IntegerEdgeTexts
    /\ ret' = [fn |-> "isValidDecimal", ok |-> isValidDecimal(arg).ok,
               thrown |-> isValidDecimal(arg).thrown,
               output |-> isValidDecimal(arg).output]
    /\ UNCHANGED <<arg, program>>

CallIsValidID ==
    /\ ret' = [fn |-> "isValidID", ok |-> isValidID(arg)]
    /\ UNCHANGED <<arg, program>>

NextValidators ==
    \/ CallIsValidInteger
    \/ CallIsValidMenuNumber
    \/ CallIsValidDecimal
    \/ CallIsValidID

SpecValidators == InitValidators /\ [][NextValidators]_vars

\* ------------------------------------------------- what the claims speak of

\* The ids of the records of a registry.
Ids(emps) == {emps[i].id : i \in 1..Len(emps)}

\* A non-empty text of ASCII letters and digits only.
AlnumOnly(t) == t # <<>> /\ \A i \in 1..Len(t) : t[i] \in Letters \cup Digits

\* An optional sign followed by one or more digits, and nothing else.
IsIntegerLiteral(t) ==
    LET body == IF t # <<>> /\ t[1] \in {"+", "-"} THEN Tail(t) ELSE t
    IN  body # <<>> /\ \A i \in 1..Len(body) : body[i] \in Digits

\* One or more digits, optionally followed by a point and one or two digits.
IsDecimalLiteral(t) ==
    \E n \in 1..Len(t) :
        /\ \A i \in 1..n : t[i] \in Digits
        /\ \/ n = Len(t)
           \/ /\ Len(t) - n \in {2, 3}
              /\ t[n + 1] = "."
              /\ \A i \in (n + 2)..Len(t) : t[i] \in Digits

\* A text all of whose digits are zeros.
AllZeros(t) == \A i \in 1..Len(t) : t[i] \in Digits => t[i] = "0"

\* The number a text of digits denotes.
RECURSIVE NatOf(_)
NatOf(t) == IF t = <<>> THEN 0 ELSE 10 * NatOf(SubSeq(t, 1, Len(t) - 1)) + DigitVal(t[Len(t)])

\* The hundredths a decimal literal denotes.
HundredthsOf(t) ==
    LET n    == CHOOSE m \in 1..Len(t) : m = Len(t) \/ t[m + 1] = "."
        frac == SubSeq(t, n + 2, Len(t))
    IN  100 * NatOf(SubSeq(t, 1, n))
        + (IF Len(frac) = 1 THEN 10 * NatOf(frac) ELSE NatOf(frac))

\* Whether the text shown (digits, an optional point, an optional exponent
\* e+XX or e-XX) denotes the number n / 10^k.
Denotes(text, n, k) ==
    LET es    == {i \in 1..Len(text) : text[i] = "e"}
        mant  == IF es = {} THEN text ELSE SubSeq(text, 1, Least(es) - 1)
        ex    == IF es = {} THEN 0
                 ELSE LET v == NatOf(SubSeq(text, Least(es) + 2, Len(text)))
                      IN  IF text[Least(es) + 1] = "-" THEN -v ELSE v
        ps    == {i \in 1..Len(mant) : mant[i] = "."}
        fracn == IF ps = {} THEN 0 ELSE Len(mant) - Least(ps)
        m     == NatOf(SelectSeq(mant, LAMBDA c : c # "."))
        sh    == ex - fracn + k
    IN  IF sh >= 0 THEN m * Pow10(sh) = n ELSE m = n * Pow10(-sh)

\* The menu line the last step read was accepted with this value.
Chose(v) ==
    /\ prompted = "menu"
    /\ isValidMenuNumber(line, 1, 5).ok
    /\ isValidMenuNumber(line, 1, 5).output = v

\* ------------------------------------------------------------------ claims

\* C1: the registry never holds two records with equal id; an id equal to a
\* stored record's is rejected by getEmployeeId with the duplicate diagnostic
\* and a re-prompt, and the id an add operation carries to its later prompts
\* (the id of the record it will append) differs from every stored id.
C1_UniqueIds ==
    /\ \A i, j \in 1..Len(employees) :
           employees[i].id = employees[j].id => i = j
    /\ (prompted = "id" /\ line \in Ids(employees)) =>
           (pc = "id" /\ out = <<IdDuplicateMsg, IdPrompt>>)
    /\ pc \in {"name", "decimal", "numeric"} => id \notin Ids(employees)

\* An id equal to the stored record's id has just been rejected.
C1_Witness ==
    /\ Len(employees) = 1
    /\ prompted = "id"
    /\ line = employees[1].id
    /\ pc = "id"

\* C2: every menu line the validator accepts with value 5 ends the loop: the
\* program has exited and the menu is not displayed again.
C2_Option5Terminates == Chose(5) => (pc = "exited" /\ out = <<Line("Exiting program. Goodbye!")>>)

\* C3: isValidInteger succeeds iff the text is exactly an optional sign and one
\* or more digits.
C3_IntegerIffLiteral ==
    ret.fn = "isValidInteger" => (ret.ok <=> IsIntegerLiteral(arg))

\* C4: isValidDecimal succeeds exactly on digits with an optional point and one
\* or two digits, fails on every other text, and returns the number denoted.
C4_DecimalIffLiteral ==
    ret.fn = "isValidDecimal" =>
        /\ ret.thrown = "none"
        /\ ret.ok <=> IsDecimalLiteral(arg)
        /\ ret.ok => ret.output = HundredthsOf(arg)

\* C5: each line getEmployeeId rejects gets exactly the diagnostic of its
\* failure mode and a re-prompt (empty; not solely letters and digits; equal to
\* a stored id), every other line is returned, and the id returned is non-empty,
\* solely letters and digits, and no stored id.
C5_PromptId ==
    /\ prompted = "id" =>
          IF line = <<>>
          THEN pc = "id" /\ id = <<>> /\ out = <<IdEmptyMsg, IdPrompt>>
          ELSE IF ~AlnumOnly(line)
          THEN pc = "id" /\ id = <<>> /\ out = <<IdFormatMsg, IdPrompt>>
          ELSE IF line \in Ids(employees)
          THEN pc = "id" /\ id = <<>> /\ out = <<IdDuplicateMsg, IdPrompt>>
          ELSE pc = "name" /\ id = line /\ out = <<NamePrompt>>
    /\ pc \in {"name", "decimal", "numeric"} =>
          (AlnumOnly(id) /\ id \notin Ids(employees))

\* getEmployeeId has just returned an id while the registry holds a record.
C5_Witness ==
    /\ prompted = "id"
    /\ pc = "name"
    /\ id = line
    /\ Len(employees) = 1

Refused == pc = "menu" /\ out = <<InvalidChoiceMsg>> \o MenuText

\* C7: the driver dispatches only for a line with no space that is an integer
\* literal of value in 1..5; every other line gets the invalid-choice
\* diagnostic and the menu again, and starts no add and no report.
C7_DispatchOnlyValid ==
    (/\ prompted = "menu"
     /\ ~(/\ ~HasSpace(line)
          /\ IsIntegerLiteral(line)
          /\ isValidInteger(line).output \in 1..5))
    => Refused

\* What a step may do to the registry.
C8_Appends ==
    pc' # "exited" =>
        /\ \/ employees' = employees
           \/ /\ Len(employees') = Len(employees) + 1
              /\ SubSeq(employees', 1, Len(employees)) = employees
        /\ pc = "menu" => employees' = employees

\* C8: the registry starts empty; until the program ends, a step leaves it
\* unchanged or appends exactly one record after the records stored, which
\* stay as they are; a step of the menu (the report included) leaves it
\* unchanged.
C8_AppendOnly == employees = <<>> /\ [][C8_Appends]_vars

\* The report of a registry of two records has just been displayed.
C8_Witness ==
    /\ Chose(4)
    /\ Len(employees) = 2
    /\ out[1] = ReportHeader

\* Whether lines are the block of record e: its id and name, its variant's
\* lines with every number shown denoting the field or the pay computed from
\* the stored fields, and the blank line.
BlockShows(lines, e) ==
    /\ lines[1] = Line2("Employee: %name (ID: %id)", e.name, e.id)
    /\ lines[Len(lines)] = Line("")
    /\ CASE e.type = "FullTime" ->
               /\ Len(lines) = 3
               /\ lines[2].lit = "Fixed Monthly Salary: $"
               /\ Denotes(lines[2].a, e.salary, 2)
         [] e.type = "PartTime" ->
               /\ Len(lines) = 5
               /\ lines[2].lit = "Hourly Wage: $"
               /\ Denotes(lines[2].a, e.hourlyWage, 2)
               /\ lines[3].lit = "Hours Worked: "
               /\ Denotes(lines[3].a, e.hoursWorked, 2)
               /\ lines[4].lit = "Total Salary: $"
               /\ Denotes(lines[4].a, e.hourlyWage * e.hoursWorked, 4)
         [] e.type = "Contractual" ->
               /\ Len(lines) = 5
               /\ lines[2].lit = "Contract Payment Per Project: $"
               /\ Denotes(lines[2].a, e.paymentPerProject, 2)
               /\ lines[3].lit = "Projects Completed: "
               /\ Denotes(lines[3].a, e.projectsCompleted, 0)
               /\ lines[4].lit = "Total Salary: $"
               /\ Denotes(lines[4].a, e.paymentPerProject * e.projectsCompleted, 2)

BlockLen(e) == IF e.type = "FullTime" THEN 3 ELSE 5

RECURSIVE BlocksShow(_, _)
BlocksShow(lines, emps) ==
    IF emps = <<>> THEN lines = <<>>
    ELSE /\ Len(lines) >= BlockLen(Head(emps))
         /\ BlockShows(SubSeq(lines, 1, BlockLen(Head(emps))), Head(emps))
         /\ BlocksShow(SubSeq(lines, BlockLen(Head(emps)) + 1, Len(lines)), Tail(emps))

\* C9: the report of an empty registry is the no-employees notice alone; of a
\* non-empty one, the header and one block per record in insertion order, each
\* showing its fields and a total pay equal to the pay computed from them.
C9_ReportShowsPay ==
    Chose(4) =>
        LET report == SubSeq(out, 1, Len(out) - Len(MenuText))
        IN  IF employees = <<>> THEN report = <<NoEmployeesMsg>>
            ELSE /\ report # <<>>
                 /\ Head(report) = ReportHeader
                 /\ BlocksShow(Tail(report), employees)

\* What a line read at a prompt of an add operation may do.
C10_Recovers ==
    pc \in {"id", "name", "decimal", "numeric"} =>
        \/ /\ pc' = pc
           /\ UNCHANGED <<employees, option, id, name, vals>>
        \/ /\ UNCHANGED <<employees, option>>
           /\ \/ pc = "id" /\ pc' = "name" /\ UNCHANGED <<name, vals>>
              \/ pc = "name" /\ pc' = "decimal" /\ UNCHANGED <<id, vals>>
              \/ /\ pc = "decimal"
                 /\ pc' \in {"decimal", "numeric"}
                 /\ Len(vals') = Len(vals) + 1
                 /\ UNCHANGED <<id, name>>
        \/ /\ pc \in {"decimal", "numeric"}
           /\ pc' = "menu"
           /\ Len(employees') = Len(employees) + 1
           /\ employees'[Len(employees')].id = id

\* C10: a line at a prompt of an add operation either re-prompts the same
\* field, with the fields collected and the registry unchanged, or moves to
\* the next field in the order id, name, the variant's fields, or, at the last
\* field, appends the one record and returns to the menu.
C10_LocalRecovery == [][C10_Recovers]_vars

====
